---- MODULE Spec2Model ----
(***************************************************************************)
(* A model of rag_agent.py: the chunker (chunk_text), the indexer          *)
(* (build_index), the retriever (retrieve_top_chunks) and the decision     *)
(* engine (answer_question, escalate_ticket).                              *)
(*                                                                         *)
(* Python strings are sequences of one-character strings, so that strip,   *)
(* split, splitlines and join are computed rather than assumed.            *)
(***************************************************************************)
EXTENDS Integers, Sequences, FiniteSets, TLC

VARIABLES
    \* ---- chunk_text, called on its own (SpecChunk) ----
    text,           \* the text argument
    chunk_size,     \* the chunk_size argument
    overlap,        \* the overlap argument
    cpc,            \* "call" before the call, "done" after it
    cresult,        \* what the call did: [kind, chunks]
    \* ---- module globals of rag_agent.py and the vector store ----
    kb_docs_cache,  \* _KB_DOCS_CACHE
    chroma,         \* chroma_client's collections: collection id -> [name, items]
    next_uuid,      \* the id the store gives the next collection it creates
    collection,     \* the global handle: the id of a collection
    n_tickets,      \* tickets created so far by escalate_ticket
    \* ---- a caller running build_index ----
    b_pc,           \* its position in build_index
    b_col,          \* col
    b_ids,          \* ids
    b_contents,     \* contents
    b_idx,          \* idx
    b_todo,         \* the (filename, chunk) pairs the loops have still to embed
    b_result,       \* what the last call did
    b_before,       \* what a query saw when the last call began (observation)
    n_builds,       \* build_index calls begun
    \* ---- a caller running answer_question ----
    r_pc,           \* its position in answer_question
    r_chunks,       \* chunks
    r_meta,         \* meta
    r_msg,          \* msg, the first response's message (None before it)
    r_i,            \* the position of "for tool_call in msg.tool_calls"
    r_tool_result,  \* tool_result
    r_result,       \* what the last call did
    r_obs,          \* the view of the index the call's query got
    r_ncalls,       \* reasoning-model calls issued by the current call
    r_ntickets,     \* tickets created by the current call
    n_questions     \* answer_question calls begun

chunkVars == <<text, chunk_size, overlap, cpc, cresult>>
storeVars == <<kb_docs_cache, chroma, next_uuid, collection, n_tickets>>
buildVars == <<b_pc, b_col, b_ids, b_contents, b_idx, b_todo, b_result, b_before, n_builds>>
askVars == <<r_pc, r_chunks, r_meta, r_msg, r_i, r_tool_result, r_result, r_obs,
             r_ncalls, r_ntickets, n_questions>>
vars == <<chunkVars, storeVars, buildVars, askVars>>

----------------------------------------------------------------------------
(* Bounds of the model *)

MaxLines == 3
MaxChunk == 3
MaxOverlap == 3
MaxBuilds == 2
MaxQuestions == 1
MaxToolCalls == 2

(* Program constants *)

DefaultChunkSize == 800
DefaultOverlap == 150
AnswerK == 2

----------------------------------------------------------------------------
(* Python string primitives *)

NL == "\n"

IsSpace(c) == c = " " \/ c = NL

RECURSIVE LStrip(_)
LStrip(s) ==
    IF s = <<>> THEN <<>>
    ELSE IF IsSpace(Head(s)) THEN LStrip(Tail(s)) ELSE s

RECURSIVE RStrip(_)
RStrip(s) ==
    IF s = <<>> THEN <<>>
    ELSE IF IsSpace(s[Len(s)]) THEN RStrip(SubSeq(s, 1, Len(s) - 1)) ELSE s

\* str.strip()
Strip(s) == RStrip(LStrip(s))

\* str.startswith("#")
StartsWithHash(s) == Len(s) > 0 /\ s[1] = "#"

\* str.splitlines(): a line ends at each newline; what follows the last
\* newline is a line only when it is not empty.
RECURSIVE SplitLinesFrom(_, _, _)
SplitLinesFrom(s, acc, cur) ==
    IF s = <<>> THEN (IF cur = <<>> THEN acc ELSE Append(acc, cur))
    ELSE IF Head(s) = NL THEN SplitLinesFrom(Tail(s), Append(acc, cur), <<>>)
    ELSE SplitLinesFrom(Tail(s), acc, Append(cur, Head(s)))

SplitLines(s) == SplitLinesFrom(s, <<>>, <<>>)

\* str.split(): the maximal runs of non-whitespace characters.
RECURSIVE SplitFrom(_, _, _)
SplitFrom(s, acc, cur) ==
    IF s = <<>> THEN (IF cur = <<>> THEN acc ELSE Append(acc, cur))
    ELSE IF IsSpace(Head(s))
         THEN SplitFrom(Tail(s), IF cur = <<>> THEN acc ELSE Append(acc, cur), <<>>)
         ELSE SplitFrom(Tail(s), acc, Append(cur, Head(s)))

Split(s) == SplitFrom(s, <<>>, <<>>)

\* sep.join(parts)
RECURSIVE Join(_, _)
Join(sep, parts) ==
    IF parts = <<>> THEN <<>>
    ELSE IF Len(parts) = 1 THEN parts[1]
    ELSE parts[1] \o sep \o Join(sep, Tail(parts))

\* seq[start:end] with Python's treatment of negative and out-of-range indices
PyIndex(i, n) == IF i < 0 THEN (IF i + n < 0 THEN 0 ELSE i + n)
                 ELSE (IF i > n THEN n ELSE i)

PySlice(seq, start, end) ==
    LET lo == PyIndex(start, Len(seq))
        hi == PyIndex(end, Len(seq))
    IN  IF lo >= hi THEN <<>> ELSE SubSeq(seq, lo + 1, hi)

----------------------------------------------------------------------------
(* chunk_text *)

\* " ".join(x.strip() for x in current if x.strip())
JoinStripped(current) ==
    LET stripped == [i \in 1..Len(current) |-> Strip(current[i])]
    IN  Join(<<" ">>, SelectSeq(stripped, LAMBDA x : x # <<>>))

\* if current: joined = ...; if joined: sections.append(joined)
Flush(sections, current) ==
    IF current = <<>> THEN sections
    ELSE LET joined == JoinStripped(current)
         IN  IF joined # <<>> THEN Append(sections, joined) ELSE sections

\* the body of "for line in lines", on the pair (sections, current)
SectionStep(st, line) ==
    LET heading == StartsWithHash(Strip(line))
        afterHeading ==
            IF heading /\ st.current # <<>>
            THEN [sections |-> Flush(st.sections, st.current), current |-> <<>>]
            ELSE st
    IN  IF Strip(line) # <<>>
        THEN [afterHeading EXCEPT !.current = Append(@, line)]
        ELSE afterHeading

RECURSIVE SectionLoop(_, _)
SectionLoop(lines, st) ==
    IF lines = <<>> THEN st
    ELSE SectionLoop(Tail(lines), SectionStep(st, Head(lines)))

\* BuildSections with a fault: the last section is not flushed
BuildSectionsNoLastFlush(lines) ==
    SectionLoop(lines, [sections |-> <<>>, current |-> <<>>]).sections

\* the section loop and the flush of the last section
BuildSections(lines) ==
    LET st == SectionLoop(lines, [sections |-> <<>>, current |-> <<>>])
    IN  Flush(st.sections, st.current)

\* the fallback loop: "while start < len(words)". The loop's only control
\* state is start, so an iteration that leaves start unchanged repeats for
\* ever.
RECURSIVE SlidingLoop(_, _, _, _, _)
SlidingLoop(words, start, size, ovl, chunks) ==
    IF ~(start < Len(words)) THEN [kind |-> "return", chunks |-> chunks]
    ELSE LET end == start + size
             chunk_words == PySlice(words, start, end)
         IN  IF chunk_words = <<>> THEN [kind |-> "return", chunks |-> chunks]
             ELSE IF end - ovl = start THEN [kind |-> "loops", chunks |-> <<>>]
             ELSE SlidingLoop(words, end - ovl, size, ovl,
                              Append(chunks, Join(<<" ">>, chunk_words)))

SlidingWindow(words, size, ovl) == SlidingLoop(words, 0, size, ovl, <<>>)

NoResult == [kind |-> "none", chunks |-> <<>>]

chunk_text(t, size, ovl) ==
    LET sections == BuildSections(SplitLines(t))
    IN  IF sections # <<>> THEN [kind |-> "return", chunks |-> sections]
        ELSE SlidingWindow(Split(t), size, ovl)

----------------------------------------------------------------------------
(* The vector store (chromadb) as rag_agent.py uses it *)

COLLECTION_NAME == "support_kb"

\* chroma_client.list_collections(), as the ids of the collections named name
CollectionsNamed(store, name) == {c \in DOMAIN store : store[c].name = name}

\* chroma_client.create_collection(name=...): a fresh, empty collection
create_collection(store, id, name) ==
    [c \in DOMAIN store \cup {id} |->
        IF c = id THEN [name |-> name, items |-> <<>>] ELSE store[c]]

\* chroma_client.delete_collection(name=...)
delete_collection(store, name) ==
    [c \in DOMAIN store \ CollectionsNamed(store, name) |-> store[c]]

\* col.add(ids=..., documents=..., embeddings=...): one call adds every
\* chunk; the embedding vectors are the external service's and are not kept.
add(store, col, ids, documents) ==
    [store EXCEPT ![col].items =
        @ \o [i \in 1..Len(ids) |-> [id |-> ids[i], document |-> documents[i]]]]

HasDuplicates(seq) == \E i, j \in 1..Len(seq) : i # j /\ seq[i] = seq[j]

\* _get_or_create_collection() at import time, on the fresh in-memory client
InitialCollectionId == 1

\* What a query through a handle can see. A handle whose collection was
\* deleted either fails, or (a store that resolves handles by name) reads the
\* collection that now carries the name.
ErrorView == [kind |-> "error", items |-> <<>>]
OkView(items) == [kind |-> "ok", items |-> items]

HandleViews(store, h) ==
    IF h \in DOMAIN store THEN {OkView(store[h].items)}
    ELSE {ErrorView} \cup
         {OkView(store[c].items) : c \in CollectionsNamed(store, COLLECTION_NAME)}

\* collection.query(n_results=k, include=["documents"]): up to k documents;
\* their ranking is decided by the embeddings, which are external.
query(items, k) ==
    LET n == IF Len(items) < k THEN Len(items) ELSE k
    IN  {[i \in 1..n |-> items[f[i]].document] :
            f \in {g \in [1..n -> 1..Len(items)] :
                      \A a, b \in 1..n : a # b => g[a] # g[b]}}

----------------------------------------------------------------------------
(* load_docs_from_folder and the chunk ids *)

\* The folders ./docs can be: each file is its basename, as the sequence
\* (stem, extension), and its text.
DocsFolders ==
    { <<>>,
      << [name |-> <<"faq", ".md">>,
          text |-> <<"#", " ", "h", NL, "a", NL, NL, "#", "k", NL>>] >>,
      << [name |-> <<"faq", ".md">>, text |-> <<"b", " ", "c">>],
         [name |-> <<"logo", ".png">>, text |-> <<"a">>],
         [name |-> <<"faq", ".md">>, text |-> <<" ", "#", " ", "h", NL>>] >>,
      << [name |-> <<"notes", ".txt">>, text |-> <<" ", NL, " ">>] >> }

\* path.lower().endswith((".md", ".txt"))
HasDocExtension(name) == name[Len(name)] \in {".md", ".txt"}

load_docs_from_folder(folder) ==
    LET kept == SelectSeq(folder,
                    LAMBDA f : HasDocExtension(f.name) /\ Strip(f.text) # <<>>)
    IN  [i \in 1..Len(kept) |->
            [filename |-> kept[i].name, text |-> Strip(kept[i].text)]]

DigitChars == <<"0", "1", "2", "3", "4", "5", "6", "7", "8", "9">>

\* str(idx)
RECURSIVE Digits(_)
Digits(n) ==
    IF n < 10 THEN <<DigitChars[n + 1]>>
    ELSE Digits(n \div 10) \o <<DigitChars[(n % 10) + 1]>>

\* f"{filename}-{idx}", with os.path.basename(path) as filename
FmtId(filename, idx) == filename \o <<"-">> \o Digits(idx)

\* "for filename, text in _KB_DOCS_CACHE: for chunk in chunk_text(text)": the
\* (filename, chunk) pairs in the order the loops meet them
RECURSIVE PendingChunks(_)
PendingChunks(docs) ==
    IF docs = <<>> THEN <<>>
    ELSE LET cs == chunk_text(Head(docs).text, DefaultChunkSize, DefaultOverlap).chunks
         IN  [i \in 1..Len(cs) |-> [filename |-> Head(docs).filename, chunk |-> cs[i]]]
             \o PendingChunks(Tail(docs))

----------------------------------------------------------------------------
(* build_index *)

NoBuildResult == [kind |-> "none", error |-> "", col |-> 0, count |-> 0]
BuildRaised(e) == [kind |-> "raised", error |-> e, col |-> 0, count |-> 0]
BuildReturned(col, n) == [kind |-> "returned", error |-> "", col |-> col, count |-> n]

\* AssignHandle with a fault: "global collection" is forgotten, so the
\* assignment binds a local name and the global handle keeps its value
AssignHandleLocal(col) == collection

\* global collection; collection = col
AssignHandle(col) == col

BuildLocalsReset ==
    /\ b_col' = 0
    /\ b_ids' = <<>>
    /\ b_contents' = <<>>
    /\ b_idx' = 0
    /\ b_todo' = <<>>

\* _KB_DOCS_CACHE = load_docs_from_folder("docs"); raise if it is empty
BuildLoad(folder) ==
    /\ b_pc = "idle"
    /\ n_builds < MaxBuilds
    /\ n_builds' = n_builds + 1
    /\ kb_docs_cache' = load_docs_from_folder(folder)
    /\ b_before' = IF collection \in DOMAIN chroma
                   THEN OkView(chroma[collection].items) ELSE ErrorView
    /\ IF kb_docs_cache' = <<>>
       THEN /\ b_result' = BuildRaised("RuntimeError")
            /\ b_pc' = "idle"
       ELSE /\ b_result' = NoBuildResult
            /\ b_pc' = "drop"
    /\ BuildLocalsReset
    /\ UNCHANGED <<chroma, next_uuid, collection, n_tickets>>
    /\ UNCHANGED <<chunkVars, askVars>>

\* for c in list_collections(): if c.name == COLLECTION_NAME: delete_collection
BuildDrop ==
    /\ b_pc = "drop"
    /\ chroma' = delete_collection(chroma, COLLECTION_NAME)
    /\ b_pc' = "create"
    /\ UNCHANGED <<kb_docs_cache, next_uuid, collection, n_tickets>>
    /\ UNCHANGED <<b_col, b_ids, b_contents, b_idx, b_todo, b_result, b_before, n_builds>>
    /\ UNCHANGED <<chunkVars, askVars>>

\* col = create_collection(name=COLLECTION_NAME); ids, contents = [], []; idx = 0
BuildCreate ==
    /\ b_pc = "create"
    /\ IF CollectionsNamed(chroma, COLLECTION_NAME) # {}
       THEN /\ b_result' = BuildRaised("UniqueConstraintError")
            /\ b_pc' = "idle"
            /\ BuildLocalsReset
            /\ UNCHANGED <<chroma, next_uuid>>
       ELSE /\ chroma' = create_collection(chroma, next_uuid, COLLECTION_NAME)
            /\ next_uuid' = next_uuid + 1
            /\ b_col' = next_uuid
            /\ b_ids' = <<>>
            /\ b_contents' = <<>>
            /\ b_idx' = 0
            /\ b_todo' = PendingChunks(kb_docs_cache)
            /\ b_pc' = "embed"
            /\ UNCHANGED b_result
    /\ UNCHANGED <<kb_docs_cache, collection, n_tickets, b_before, n_builds>>
    /\ UNCHANGED <<chunkVars, askVars>>

\* one iteration of the inner loop; get_embeddings(chunk) answers
BuildEmbed ==
    /\ b_pc = "embed"
    /\ b_todo # <<>>
    /\ b_ids' = Append(b_ids, FmtId(Head(b_todo).filename, b_idx))
    /\ b_contents' = Append(b_contents, Head(b_todo).chunk)
    /\ b_idx' = b_idx + 1
    /\ b_todo' = Tail(b_todo)
    /\ UNCHANGED <<b_pc, b_col, b_result, b_before, n_builds>>
    /\ UNCHANGED <<chunkVars, storeVars, askVars>>

\* one iteration of the inner loop; get_embeddings(chunk) raises
BuildEmbedFails ==
    /\ b_pc = "embed"
    /\ b_todo # <<>>
    /\ b_result' = BuildRaised("UpstreamServiceError")
    /\ b_pc' = "idle"
    /\ BuildLocalsReset
    /\ UNCHANGED <<b_before, n_builds>>
    /\ UNCHANGED <<chunkVars, storeVars, askVars>>

\* col.add(ids=ids, documents=contents, embeddings=embeddings)
BuildAdd ==
    /\ b_pc = "embed"
    /\ b_todo = <<>>
    /\ IF HasDuplicates(b_ids) \/ b_ids = <<>>
       THEN /\ b_result' = BuildRaised("ValueError")
            /\ b_pc' = "idle"
            /\ BuildLocalsReset
            /\ UNCHANGED chroma
       ELSE /\ chroma' = add(chroma, b_col, b_ids, b_contents)
            /\ b_pc' = "assign"
            /\ UNCHANGED <<b_col, b_ids, b_contents, b_idx, b_todo, b_result>>
    /\ UNCHANGED <<kb_docs_cache, next_uuid, collection, n_tickets, b_before, n_builds>>
    /\ UNCHANGED <<chunkVars, askVars>>

\* global collection; collection = col; return col, len(ids)
BuildAssign ==
    /\ b_pc = "assign"
    /\ collection' = AssignHandle(b_col)
    /\ b_result' = BuildReturned(b_col, Len(b_ids))
    /\ b_pc' = "idle"
    /\ BuildLocalsReset
    /\ UNCHANGED <<kb_docs_cache, chroma, next_uuid, n_tickets, b_before, n_builds>>
    /\ UNCHANGED <<chunkVars, askVars>>

build_index ==
    \/ \E folder \in DocsFolders : BuildLoad(folder)
    \/ BuildDrop
    \/ BuildCreate
    \/ BuildEmbed
    \/ BuildEmbedFails
    \/ BuildAdd
    \/ BuildAssign

----------------------------------------------------------------------------
(* The reasoning model's responses *)

\* Python's None and a value, as a sequence of at most one element
None == <<>>
Some(x) == <<x>>

REQUIRED_KEYS == {"user_question", "retrieved_context"}

\* tool_call.function.arguments: a string that is or is not JSON, and when
\* it is, the keys of the object it encodes
ArgPayloads ==
    {[parses |-> FALSE, keys |-> {}]} \cup
    {[parses |-> TRUE, keys |-> k] : k \in (SUBSET REQUIRED_KEYS) \ {{}}}

ToolCalls ==
    {[name |-> "escalate_ticket", arguments |-> p] : p \in ArgPayloads} \cup
    {[name |-> "lookup_order", arguments |-> [parses |-> TRUE, keys |-> {}]]}

RECURSIVE ToolCallLists(_)
ToolCallLists(n) ==
    IF n = 0 THEN {<<>>}
    ELSE LET shorter == ToolCallLists(n - 1)
         IN  shorter \cup
             {Append(l, c) : l \in {x \in shorter : Len(x) = n - 1}, c \in ToolCalls}

\* message.content: None or a text
Contents == {None, Some(<<" ", "o", "k", " ">>)}

\* first.choices[0].message
Messages ==
    {[content |-> c, tool_calls |-> l] : c \in Contents, l \in ToolCallLists(MaxToolCalls)}

----------------------------------------------------------------------------
(* escalate_ticket and answer_question *)

\* escalate_ticket: a fresh ticket id
escalate_ticket(ticket_id) ==
    [ticket_id |-> ticket_id, status |-> "created", assigned_team |-> "Tier-2 Support",
     note |-> "Escalated because documentation was insufficient or ambiguous."]

\* ArgsOutcome with a fault: the fields are read with args.get(...)
ArgsOutcomeLenient(payload) ==
    IF ~payload.parses THEN "JSONDecodeError" ELSE "ok"

\* args = json.loads(arguments); args["user_question"]; args["retrieved_context"]
ArgsOutcome(payload) ==
    IF ~payload.parses THEN "JSONDecodeError"
    ELSE IF "user_question" \notin payload.keys THEN "KeyError"
    ELSE IF "retrieved_context" \notin payload.keys THEN "KeyError"
    ELSE "ok"

\* the meta of a call, as built before the first reasoning-model call
InitialMeta(chunks) ==
    [mode |-> "answer_from_docs", tool_called |-> None, ticket |-> None,
     retrieved_chunks |-> chunks]

\* EscalatedMeta with a fault: meta["mode"] is not updated
EscalatedMetaKeepsMode(meta, ticket) ==
    [meta EXCEPT !.tool_called = Some("escalate_ticket"), !.ticket = Some(ticket)]

\* meta["mode"] = "escalated"; meta["tool_called"] = ...; meta["ticket"] = tool_result
EscalatedMeta(meta, ticket) ==
    [meta EXCEPT !.mode = "escalated",
                 !.tool_called = Some("escalate_ticket"),
                 !.ticket = Some(ticket)]

\* the first tool call at or after position i that names escalate_ticket,
\* or 0: the calls the loop passes over are ignored
FirstEscalate(calls, i) ==
    LET hits == {j \in i..Len(calls) : calls[j].name = "escalate_ticket"}
    IN  IF hits = {} THEN 0 ELSE CHOOSE j \in hits : \A k \in hits : j <= k

\* AfterSecondCall with a fault: the return inside the loop is missing and
\* the loop goes on to the next tool call
AfterSecondCallContinues(i) == i + 1

\* "return final, context, meta" inside the loop: no tool call is looked at
\* after the one that was handled (0: the loop is left)
AfterSecondCall(i) == 0

NoMeta == InitialMeta(<<>>)
NoAnswer == [kind |-> "none", error |-> "", final_answer |-> <<>>,
             context |-> <<>>, meta |-> NoMeta]
AnswerRaised(e) == [NoAnswer EXCEPT !.kind = "raised", !.error = e]
AnswerReturned(final, chunks, meta) ==
    [kind |-> "returned", error |-> "", final_answer |-> final,
     context |-> Join(<<NL, NL>>, chunks), meta |-> meta]

\* what the call's query saw: a view of the index, or nothing yet
NoObs == [kind |-> "none", items |-> <<>>]

Documents(items) == [i \in 1..Len(items) |-> items[i].document]

AskRaise(e) ==
    /\ r_result' = AnswerRaised(e)
    /\ r_pc' = "idle"

\* answer_question is entered: retrieve_top_chunks(question, k=2), then meta
AskRetrieve ==
    /\ r_pc = "idle"
    /\ n_questions < MaxQuestions
    /\ n_questions' = n_questions + 1
    /\ r_msg' = None
    /\ r_i' = 0
    /\ r_tool_result' = None
    /\ r_ncalls' = 0
    /\ r_ntickets' = 0
    /\ \E view \in HandleViews(chroma, collection) :
          /\ r_obs' = view
          /\ IF view.kind = "error"
             THEN /\ AskRaise("InvalidCollection")
                  /\ r_chunks' = <<>>
                  /\ r_meta' = NoMeta
             ELSE \E chunks \in query(view.items, AnswerK) :
                    /\ r_chunks' = chunks
                    /\ r_meta' = InitialMeta(chunks)
                    /\ r_result' = NoAnswer
                    /\ r_pc' = "first"
    /\ UNCHANGED <<chunkVars, storeVars, buildVars>>

\* answer_question is entered and get_embeddings(query) raises
AskEmbedFails ==
    /\ r_pc = "idle"
    /\ n_questions < MaxQuestions
    /\ n_questions' = n_questions + 1
    /\ r_msg' = None
    /\ r_i' = 0
    /\ r_tool_result' = None
    /\ r_ncalls' = 0
    /\ r_ntickets' = 0
    /\ r_obs' = NoObs
    /\ r_chunks' = <<>>
    /\ r_meta' = NoMeta
    /\ AskRaise("UpstreamServiceError")
    /\ UNCHANGED <<chunkVars, storeVars, buildVars>>

\* first = client.chat.completions.create(...); msg = first.choices[0].message
AskFirstCall ==
    /\ r_pc = "first"
    /\ r_ncalls' = r_ncalls + 1
    /\ \E msg \in Messages : r_msg' = Some(msg)
    /\ r_i' = 1
    /\ r_pc' = "dispatch"
    /\ UNCHANGED <<r_chunks, r_meta, r_tool_result, r_result, r_obs, r_ntickets, n_questions>>
    /\ UNCHANGED <<chunkVars, storeVars, buildVars>>

\* the first reasoning-model call raises
AskFirstCallFails ==
    /\ r_pc = "first"
    /\ r_ncalls' = r_ncalls + 1
    /\ AskRaise("UpstreamServiceError")
    /\ UNCHANGED <<r_chunks, r_meta, r_msg, r_i, r_tool_result, r_obs, r_ntickets, n_questions>>
    /\ UNCHANGED <<chunkVars, storeVars, buildVars>>

\* no (further) tool call names escalate_ticket: the direct answer path
AskDirectAnswer ==
    /\ r_pc = "dispatch"
    /\ FirstEscalate(r_msg[1].tool_calls, r_i) = 0
    /\ LET content == IF r_msg[1].content = None THEN <<>> ELSE r_msg[1].content[1]
       IN  r_result' = AnswerReturned(Strip(content), r_chunks, r_meta)
    /\ r_pc' = "idle"
    /\ UNCHANGED <<r_chunks, r_meta, r_msg, r_i, r_tool_result, r_obs, r_ncalls,
                   r_ntickets, n_questions>>
    /\ UNCHANGED <<chunkVars, storeVars, buildVars>>

\* the escalate_ticket call's arguments do not parse, or lack a field
AskMalformedArgs ==
    /\ r_pc = "dispatch"
    /\ LET j == FirstEscalate(r_msg[1].tool_calls, r_i)
       IN  /\ j # 0
           /\ ArgsOutcome(r_msg[1].tool_calls[j].arguments) # "ok"
           /\ AskRaise(ArgsOutcome(r_msg[1].tool_calls[j].arguments))
           /\ r_i' = j
    /\ UNCHANGED <<r_chunks, r_meta, r_msg, r_tool_result, r_obs, r_ncalls,
                   r_ntickets, n_questions>>
    /\ UNCHANGED <<chunkVars, storeVars, buildVars>>

\* tool_result = escalate_ticket(...); the three meta assignments
AskEscalate ==
    /\ r_pc = "dispatch"
    /\ LET j == FirstEscalate(r_msg[1].tool_calls, r_i)
           ticket == escalate_ticket(n_tickets + 1)
       IN  /\ j # 0
           /\ ArgsOutcome(r_msg[1].tool_calls[j].arguments) = "ok"
           /\ r_i' = j
           /\ r_tool_result' = Some(ticket)
           /\ r_meta' = EscalatedMeta(r_meta, ticket)
    /\ n_tickets' = n_tickets + 1
    /\ r_ntickets' = r_ntickets + 1
    /\ r_pc' = "second"
    /\ UNCHANGED <<r_chunks, r_msg, r_result, r_obs, r_ncalls, n_questions>>
    /\ UNCHANGED <<kb_docs_cache, chroma, next_uuid, collection>>
    /\ UNCHANGED <<chunkVars, buildVars>>

\* second = client.chat.completions.create(...);
\* final = second.choices[0].message.content.strip(); return final, context, meta
AskSecondCall ==
    /\ r_pc = "second"
    /\ r_ncalls' = r_ncalls + 1
    /\ \E content \in Contents :
          IF content = None
          THEN /\ AskRaise("AttributeError")
               /\ UNCHANGED r_i
          ELSE IF AfterSecondCall(r_i) = 0
               THEN /\ r_result' = AnswerReturned(Strip(content[1]), r_chunks, r_meta)
                    /\ r_pc' = "idle"
                    /\ UNCHANGED r_i
               ELSE /\ r_i' = AfterSecondCall(r_i)
                    /\ r_pc' = "dispatch"
                    /\ UNCHANGED r_result
    /\ UNCHANGED <<r_chunks, r_meta, r_msg, r_tool_result, r_obs, r_ntickets, n_questions>>
    /\ UNCHANGED <<chunkVars, storeVars, buildVars>>

\* the second reasoning-model call raises; the ticket stays created
AskSecondCallFails ==
    /\ r_pc = "second"
    /\ r_ncalls' = r_ncalls + 1
    /\ AskRaise("UpstreamServiceError")
    /\ UNCHANGED <<r_chunks, r_meta, r_msg, r_i, r_tool_result, r_obs, r_ntickets, n_questions>>
    /\ UNCHANGED <<chunkVars, storeVars, buildVars>>

answer_question ==
    \/ AskRetrieve
    \/ AskEmbedFails
    \/ AskFirstCall
    \/ AskFirstCallFails
    \/ AskDirectAnswer
    \/ AskMalformedArgs
    \/ AskEscalate
    \/ AskSecondCall
    \/ AskSecondCallFails

----------------------------------------------------------------------------
(* The program: a caller rebuilding the index and a caller asking questions *)

ChunkIdle ==
    /\ text = <<>>
    /\ chunk_size = DefaultChunkSize
    /\ overlap = DefaultOverlap
    /\ cpc = "idle"
    /\ cresult = NoResult

StoreInit ==
    /\ kb_docs_cache = <<>>
    /\ chroma = [c \in {InitialCollectionId} |-> [name |-> COLLECTION_NAME, items |-> <<>>]]
    /\ next_uuid = InitialCollectionId + 1
    /\ collection = InitialCollectionId
    /\ n_tickets = 0

BuildInit ==
    /\ b_pc = "idle"
    /\ b_col = 0
    /\ b_ids = <<>>
    /\ b_contents = <<>>
    /\ b_idx = 0
    /\ b_todo = <<>>
    /\ b_result = NoBuildResult
    /\ b_before = OkView(<<>>)
    /\ n_builds = 0

AskInit ==
    /\ r_pc = "idle"
    /\ r_chunks = <<>>
    /\ r_meta = NoMeta
    /\ r_msg = None
    /\ r_i = 0
    /\ r_tool_result = None
    /\ r_result = NoAnswer
    /\ r_obs = NoObs
    /\ r_ncalls = 0
    /\ r_ntickets = 0
    /\ n_questions = 0

Init == ChunkIdle /\ StoreInit /\ BuildInit /\ AskInit

Next == build_index \/ answer_question

Spec == Init /\ [][Next]_vars

----------------------------------------------------------------------------
(* chunk_text on its own: every text of up to MaxLines lines *)

Lines ==
    { <<>>, <<" ">>, <<"a">>, <<"b", " ", "c">>, <<" ", "d", " ">>,
      <<"#">>, <<"#", " ", "h">>, <<" ", "#", "k">>, <<"e", "#">> }

RECURSIVE LineSeqs(_)
LineSeqs(n) ==
    IF n = 0 THEN {<<>>}
    ELSE LET shorter == LineSeqs(n - 1)
         IN  shorter \cup
             {Append(ls, l) : ls \in {x \in shorter : Len(x) = n - 1}, l \in Lines}

Texts == {Join(<<NL>>, ls) : ls \in LineSeqs(MaxLines)}

InitChunk ==
    /\ text \in Texts
    /\ chunk_size \in 1..MaxChunk
    /\ overlap \in 0..MaxOverlap
    /\ cpc = "call"
    /\ cresult = NoResult
    /\ StoreInit /\ BuildInit /\ AskInit

ChunkCall ==
    /\ cpc = "call"
    /\ cresult' = chunk_text(text, chunk_size, overlap)
    /\ cpc' = "done"
    /\ UNCHANGED <<text, chunk_size, overlap>>
    /\ UNCHANGED <<storeVars, buildVars, askVars>>

NextChunk == ChunkCall

SpecChunk == InitChunk /\ [][NextChunk]_vars

----------------------------------------------------------------------------
(* Properties of chunk_text *)

TextLines == SplitLines(text)
HeadingLines == {i \in 1..Len(TextLines) : StartsWithHash(Strip(TextLines[i]))}
HasHeading == HeadingLines # {}
FirstHeading == CHOOSE i \in HeadingLines : \A j \in HeadingLines : i <= j
LeadingContent ==
    HasHeading /\ \E i \in 1..(FirstHeading - 1) : Strip(TextLines[i]) # <<>>
ChunkWords(i) == Split(cresult.chunks[i])
NumChunks == Len(cresult.chunks)

\* C4: a call with overlap >= chunk_size ends in a ConfigurationError, for
\* every text: it does not return chunks.
C4_OverlapGuard ==
    (cpc = "done" /\ overlap >= chunk_size) => cresult.kind = "ConfigurationError"

\* the words of chunks[i], without the overlap words it shares with chunks[i-1]
FreshWords(i) ==
    IF i = 1 THEN ChunkWords(i)
    ELSE SubSeq(ChunkWords(i), overlap + 1, Len(ChunkWords(i)))

RECURSIVE ConcatFresh(_)
ConcatFresh(n) == IF n = 0 THEN <<>> ELSE ConcatFresh(n - 1) \o FreshWords(n)

\* C5: for a non-empty text without a heading line and 0 <= overlap <
\* chunk_size the result is the sliding window: windows of chunk_size words
\* (every chunk but the last has exactly chunk_size words, none has more), a
\* non-empty last chunk, exactly overlap words shared by consecutive chunks,
\* and the original word sequence once the overlaps are removed.
C5_SlidingWindow ==
    (cpc = "done" /\ text # <<>> /\ ~HasHeading /\ overlap < chunk_size) =>
        /\ cresult.kind = "return"
        /\ \A i \in 1..NumChunks : Len(ChunkWords(i)) <= chunk_size
        /\ \A i \in 1..(NumChunks - 1) : Len(ChunkWords(i)) = chunk_size
        /\ NumChunks > 0 => cresult.chunks[NumChunks] # <<>>
        /\ \A i \in 1..(NumChunks - 1) :
              /\ Len(ChunkWords(i + 1)) >= overlap
              /\ SubSeq(ChunkWords(i), Len(ChunkWords(i)) - overlap + 1,
                        Len(ChunkWords(i)))
                 = SubSeq(ChunkWords(i + 1), 1, overlap)
        /\ ConcatFresh(NumChunks) = Split(text)

\* C6: for a text with at least one heading line the result has one chunk
\* per heading line, plus one when non-blank content precedes the first
\* heading, and no chunk is empty.
C6_HeadingSections ==
    (cpc = "done" /\ HasHeading) =>
        /\ cresult.kind = "return"
        /\ NumChunks = Cardinality(HeadingLines) + (IF LeadingContent THEN 1 ELSE 0)
        /\ \A i \in 1..NumChunks : cresult.chunks[i] # <<>>

\* C6's case: a heading after leading content, with a blank line in the text
C6_Witness ==
    /\ cpc = "done"
    /\ LeadingContent
    /\ \E i \in 1..Len(TextLines) : Strip(TextLines[i]) = <<>>
    /\ NumChunks = 2

----------------------------------------------------------------------------
(* Properties of build_index and retrieve_top_chunks *)

\* the chunk texts of the corpus in _KB_DOCS_CACHE, in index order
CorpusDocuments ==
    [i \in 1..Len(PendingChunks(kb_docs_cache)) |-> PendingChunks(kb_docs_cache)[i].chunk]

\* a step in which answer_question's query runs against the index
QueryStep == r_pc = "idle" /\ r_obs' # NoObs /\ n_questions' = n_questions + 1

\* C1: a query that interleaves with the steps of build_index sees the
\* complete old chunk set or the complete new one, never a deleted, empty or
\* partly filled index.
C1_AtomicRebuild ==
    [][(QueryStep /\ b_pc # "idle") =>
          /\ r_obs'.kind = "ok"
          /\ \/ r_obs' = b_before
             \/ Documents(r_obs'.items) = CorpusDocuments]_vars

\* C8: after a build_index call that returned, the active index holds
\* exactly the chunks of the corpus of that build, under pairwise distinct
\* ids, and it is the only index of the store.
C8_LatestCorpusOnly ==
    (b_pc = "idle" /\ b_result.kind = "returned") =>
        /\ collection \in DOMAIN chroma
        /\ DOMAIN chroma = {collection}
        /\ Documents(chroma[collection].items) = CorpusDocuments
        /\ b_result.count = Len(chroma[collection].items)
        /\ \A i, j \in 1..Len(chroma[collection].items) :
              i # j => chroma[collection].items[i].id # chroma[collection].items[j].id

\* C8's case: a second build returned, over a corpus other than the one the
\* index held before
C8_Witness ==
    /\ b_pc = "idle"
    /\ b_result.kind = "returned"
    /\ n_builds = 2
    /\ b_before.kind = "ok"
    /\ b_before.items # <<>>
    /\ Documents(b_before.items) # CorpusDocuments

\* a step in which build_index raises
BuildRaisesStep == b_pc # "idle" /\ b_pc' = "idle" /\ b_result'.kind = "raised"
\* a step in which build_index is entered and raises at once
BuildRejectsStep == b_pc = "idle" /\ n_builds' # n_builds /\ b_result'.kind = "raised"
\* a step in which answer_question raises
AskRaisesStep == r_result.kind # "raised" /\ r_result'.kind = "raised"

\* C10: when build_index or answer_question fails, the active index holds
\* the chunks it held before the call and a query through the global handle
\* still reads them.
C10_FailureKeepsIndex ==
    [][/\ BuildRaisesStep => HandleViews(chroma', collection') = {b_before}
       /\ BuildRejectsStep => HandleViews(chroma', collection') = {b_before'}
       /\ AskRaisesStep => (chroma' = chroma /\ collection' = collection)]_vars

----------------------------------------------------------------------------
(* Properties of answer_question *)

AskReturned == r_pc = "idle" /\ r_result.kind = "returned"
AskEnded == r_pc = "idle" /\ r_result.kind # "none"
GotFirstResponse == r_msg # None
EscalateCalls ==
    {j \in 1..Len(r_msg[1].tool_calls) : r_msg[1].tool_calls[j].name = "escalate_ticket"}
Malformed(payload) == ~payload.parses \/ ~(REQUIRED_KEYS \subseteq payload.keys)

\* C2: the meta a call returns is "escalated" with a created ticket and
\* tool_called "escalate_ticket", or "answer_from_docs" with neither; no
\* returned meta mixes the two.
C2_DecisionConsistent ==
    AskReturned =>
        LET m == r_result.meta
        IN  \/ /\ m.mode = "escalated"
               /\ m.tool_called = Some("escalate_ticket")
               /\ m.ticket # None
               /\ m.ticket[1].status = "created"
               /\ m.ticket[1].ticket_id \in 1..n_tickets
            \/ /\ m.mode = "answer_from_docs"
               /\ m.tool_called = None
               /\ m.ticket = None

\* C2's case: a call returned an escalated decision
C2_Witness ==
    /\ AskReturned
    /\ r_result.meta.mode = "escalated"
    /\ r_result.meta.ticket # None

\* C3: one answer_question call creates at most one ticket and issues at
\* most two reasoning-model calls, and the second call is issued only once
\* the ticket exists.
C3_OneEscalationRound ==
    /\ r_ntickets <= 1
    /\ r_ncalls <= 2
    /\ r_ncalls = 2 => r_ntickets = 1
    /\ n_tickets <= n_questions

\* C3's case: the first response carried two escalate_ticket calls and the
\* call returned
C3_Witness ==
    /\ AskReturned
    /\ GotFirstResponse
    /\ Cardinality(EscalateCalls) >= 2
    /\ r_ntickets = 1
    /\ r_ncalls = 2

\* C7: when the escalate_ticket call the engine dispatches (the first one of
\* the response) carries malformed arguments, the call raises: no decision,
\* no ticket, no second reasoning-model call, no retry.
C7_MalformedArgsRaise ==
    (/\ GotFirstResponse
     /\ EscalateCalls # {}
     /\ Malformed(r_msg[1].tool_calls[FirstEscalate(r_msg[1].tool_calls, 1)].arguments)) =>
        /\ r_pc \in {"dispatch", "idle"}
        /\ r_ntickets = 0
        /\ r_ncalls = 1
        /\ r_result.kind # "returned"
        /\ r_pc = "idle" =>
              /\ r_result.kind = "raised"
              /\ r_result.error \in {"JSONDecodeError", "KeyError"}
              /\ r_result.meta = NoMeta

\* C7's case: the arguments parsed but lacked a field, and the call raised
C7_Witness ==
    /\ AskEnded
    /\ GotFirstResponse
    /\ EscalateCalls # {}
    /\ LET args == r_msg[1].tool_calls[FirstEscalate(r_msg[1].tool_calls, 1)].arguments
       IN  args.parses /\ "retrieved_context" \notin args.keys
    /\ r_result.error = "KeyError"

\* C9: a first response whose tool calls name no supported tool ends in an
\* UnknownTool error and is not returned as a decision.
C9_UnknownToolRaises ==
    (/\ AskEnded
     /\ GotFirstResponse
     /\ r_msg[1].tool_calls # <<>>
     /\ EscalateCalls = {}) =>
        /\ r_result.kind = "raised"
        /\ r_result.error = "UnknownTool"

====
